---- MODULE Spec2Model ----
(***************************************************************************)
(* dbresolver: routing, load balancing and statement / transaction          *)
(* lifetime of the logical database (sqlDB) over primaries and replicas.    *)
(*                                                                          *)
(* Physical handles (sql.DB) are the integers 1..n; 0 is the nil pointer.   *)
(* The handles given to a constructor are pairwise distinct: the primaries  *)
(* are 1..np and the replicas np+1..np+nr.  An underlying prepared          *)
(* statement (sql.Stmt) is a record naming the handle it was prepared on.   *)
(* Every public operation is one action; the driver's answer to each call   *)
(* is drawn from Errs.  The variable last records what the last operation   *)
(* did: the driver calls it made, in order, and what it returned.           *)
(***************************************************************************)
EXTENDS Integers, Sequences, FiniteSets, TLC

\* ---------------------------------------------------------------- bounds
MaxPrimaries == 2
MaxReplicas == 2
MaxCounter == 3
MaxStmts == 2
MaxTxs == 1
MaxFailures == 1
MaxSelections == 7
MaxCallers == 3
MaxWorkers == 3
MaxDsnLen == 3
MaxPad == 1

\* ------------------------------------------------------------- vocabulary
RoundRobinLB == "ROUND_ROBIN"
RandomLB == "RANDOM"

\* What a driver call returns: nil, a data-layer error, a net.Error that is
\* not a net.OpError (for example a DNS error), or a net.OpError.
Errs == {"nil", "dataErr", "netErr", "opErr"}

\* The answers drawn for calls whose error is only passed on: success, and
\* the failure a retrying caller would react to.
CallErrs == {"nil", "opErr"}

Range(s) == {s[i] : i \in 1..Len(s)}

SeqFromTo(a, b) == [i \in 1..(b - a + 1) |-> a + i - 1]

\* ------------------------------------------------------- query classifier
QueryTypeUnknown == 0
QueryTypeRead == 1
QueryTypeWrite == 2

\* strings.ToUpper on one character (the letters the queries below use).
ToUpperChar(c) ==
    CASE c = "r" -> "R" [] c = "e" -> "E" [] c = "t" -> "T" [] c = "u" -> "U"
      [] c = "n" -> "N" [] c = "i" -> "I" [] c = "g" -> "G" [] c = "s" -> "S"
      [] c = "l" -> "L" [] c = "c" -> "C" [] c = "d" -> "D" [] c = "x" -> "X"
      [] OTHER -> c

\* A conversion that leaves the text as it is.
ToUpper_Id(s) == s

ToUpper(s) == [i \in 1..Len(s) |-> ToUpperChar(s[i])]

\* strings.Contains(s, sub)
Contains(s, sub) ==
    \E k \in 0..(Len(s) - Len(sub)) : \A j \in 1..Len(sub) : s[k + j] = sub[j]

RETURNING == <<"R", "E", "T", "U", "R", "N", "I", "N", "G">>

Check(query) ==
    IF Contains(ToUpper(query), RETURNING) THEN QueryTypeWrite ELSE QueryTypeUnknown

\* The query texts the operations are called with.
Queries ==
    << <<"s", "e", "l", "e", "c", "t", " ", "1">>,
       <<"x", " ", "R", "E", "T", "U", "R", "N", "I", "N", "G", " ", "i", "d">>,
       <<"d", " ", "r", "e", "t", "u", "r", "n", "i", "n", "g", " ", "i", "d">> >>

QueryIds == 1..Len(Queries)

\* ------------------------------------------------------------------ state
VARIABLES
    ctor,             \* the constructor that built the resolver
    built,            \* FALSE when the constructor panicked
    primaries,        \* sqlDB.primaries
    replicas,         \* sqlDB.replicas
    totalConnection,  \* sqlDB.totalConnection
    lbPolicy,         \* policy of sqlDB.loadBalancer and sqlDB.stmtLoadBalancer
    counter,          \* sqlDB.loadBalancer.counter (round-robin)
    stmtCounter,      \* sqlDB.stmtLoadBalancer.counter (round-robin)
    txs,              \* the transactions begun so far (tx wrappers)
    stmts,            \* the aggregate statements created so far
    conn,             \* the connection wrapper, NoConn when there is none
    last,             \* the last operation: what it called and returned
    picked,           \* the indices sequential Resolve calls returned, in order
    randInt,          \* RandomLoadBalancer.randInt of sqlDB.loadBalancer
    callers,          \* the goroutines calling sqlDB.loadBalancer concurrently
    opt,              \* the Option an option function is applied to
    par               \* one run of doParallely, goroutine by goroutine

vars == <<ctor, built, primaries, replicas, totalConnection, lbPolicy,
          counter, stmtCounter, txs, stmts, conn, last,
          picked, randInt, callers, opt, par>>

config == <<ctor, built, primaries, replicas, totalConnection, lbPolicy>>

\* What the operations of the resolver, its transactions, statements and
\* connection leave alone.
harness == <<picked, randInt, callers, opt, par>>

\* What a call on the balancer alone, an option function and a fan-out
\* leave alone.
resolver == <<config, stmtCounter, txs, stmts, conn, last>>

\* op: the operation; calls: the handles its driver calls reached, in
\* order; outs: what each call answered; via: for a statement operation,
\* the list each executed underlying statement was taken from; err: what
\* the caller received; q: the query text (an index of Queries, 0 when the
\* operation takes none); predicted: what predict over the primaries
\* answered just before the operation; tx, st: the transaction and the
\* aggregate statement the operation was called on or produced.
\* errs: the failing indices a fan-out's composite error holds; handed: the
\* handle of the underlying statement tx.Stmt handed to the driver.
NoOp == [op |-> "none", calls |-> <<>>, outs |-> <<>>, via |-> <<>>, err |-> "nil",
         errs |-> {}, panicked |-> FALSE, q |-> 0, predicted |-> 0, tx |-> 0,
         st |-> 0, handed |-> 0, args |-> <<>>]

\* The nil *sql.Stmt.
NilStmt == [db |-> 0, bad |-> FALSE]

\* A driver statement prepared on handle h.
DriverStmt(h) == [db |-> h, bad |-> FALSE]

\* The conn wrapper: sourceDB is the handle it remembers, conn the handle
\* its driver connection belongs to.
NoConn == [sourceDB |-> 0, conn |-> 0]

\* ----------------------------------------------------------- constructors
\* New: the option functions fill the Option; zero primaries panics.  The
\* sqlDB literal sets primaries, replicas and the two balancers and nothing
\* else, so totalConnection keeps Go's zero value.
New(ps, rs, policy) ==
    [ctor |-> "New", built |-> Len(ps) # 0, primaries |-> ps, replicas |-> rs,
     totalConnection |-> 0, lbPolicy |-> policy]

\* WrapDBs: the first handle is the primary, the rest are replicas.  The
\* balancing of a wrapped resolver is round-robin from zero counters.
WrapDBs(dbs) ==
    IF Len(dbs) = 0
    THEN [ctor |-> "WrapDBs", built |-> FALSE, primaries |-> <<>>, replicas |-> <<>>,
          totalConnection |-> 0, lbPolicy |-> RoundRobinLB]
    ELSE [ctor |-> "WrapDBs", built |-> TRUE, primaries |-> SubSeq(dbs, 1, 1),
          replicas |-> SubSeq(dbs, 2, Len(dbs)), totalConnection |-> Len(dbs),
          lbPolicy |-> RoundRobinLB]

WrapDBsMultiPrimary(primaryDBs, roDBs) ==
    [ctor |-> "WrapDBsMultiPrimary", built |-> Len(primaryDBs) + Len(roDBs) # 0,
     primaries |-> primaryDBs, replicas |-> roDBs,
     totalConnection |-> Len(primaryDBs) + Len(roDBs), lbPolicy |-> RoundRobinLB]

Constructions ==
    {New(SeqFromTo(1, np), SeqFromTo(np + 1, np + nr), pol) :
        np \in 0..MaxPrimaries, nr \in 0..MaxReplicas, pol \in {RoundRobinLB, RandomLB}}
    \cup {WrapDBs(SeqFromTo(1, n)) : n \in 0..(1 + MaxReplicas)}
    \cup {WrapDBsMultiPrimary(SeqFromTo(1, np), SeqFromTo(np + 1, np + nr)) :
        np \in 0..MaxPrimaries, nr \in 0..MaxReplicas}

\* A channel of capacity one: made by make(chan int, 1), or the nil channel
\* of a struct literal that names no randInt.
MadeChan == [made |-> TRUE, buf |-> <<>>]
NilChan == [made |-> FALSE, buf |-> <<>>]

\* A goroutine that has not called the balancer yet.
IdleCaller == [pc |-> "idle", kind |-> "none", list |-> "none", n |-> 0,
               idx |-> 0, seen |-> 0]

\* defaultOption(): no handles and round-robin balancers.  applied is the
\* policy name the last WithLoadBalancer was given, panicked whether applying
\* an option panicked.
defaultOption ==
    [PrimaryDBs |-> <<>>, ReplicaDBs |-> <<>>, DBLB |-> RoundRobinLB,
     chan |-> MadeChan, applied |-> "", panicked |-> FALSE]

\* No fan-out is running.  n is the number of workers, fails the indices on
\* which fn fails, pc the workers' positions, err what each worker's fn
\* returned, calls how often fn ran for each index, errors the buffered
\* channel, cap its capacity, closed whether it was closed,
\* arrErrs the errors the caller has collected and ret what it returned.
NoPar == [phase |-> "idle", n |-> 0, fails |-> {}, pc |-> <<>>, err |-> <<>>,
          errors |-> <<>>, cap |-> 0, closed |-> FALSE, arrErrs |-> <<>>,
          calls |-> <<>>, ret |-> [isNil |-> TRUE, errs |-> <<>>]]

InitBase ==
    /\ \E c \in Constructions :
        /\ ctor = c.ctor
        /\ built = c.built
        /\ primaries = c.primaries
        /\ replicas = c.replicas
        /\ totalConnection = c.totalConnection
        /\ lbPolicy = c.lbPolicy
    /\ counter = 0
    /\ stmtCounter = 0
    /\ txs = <<>>
    /\ stmts = <<>>
    /\ conn = NoConn
    /\ last = NoOp
    /\ picked = <<>>
    /\ callers = [c \in 1..MaxCallers |-> IdleCaller]
    /\ opt = defaultOption
    /\ par = NoPar

\* The random balancer's channel as WithLoadBalancer makes it.
Init == InitBase /\ randInt = MadeChan

\* ---------------------------------------------------------- load balancer
\* RoundRobinLoadBalancer.roundRobin: the index, and the counter afterwards.
roundRobin_Lost(c, n) ==
    IF n <= 1 THEN [idx |-> 0, counter |-> c]
    ELSE [idx |-> (c + 1) % n, counter |-> c]

roundRobin_Skip(c, n) ==
    IF n <= 1 THEN [idx |-> 0, counter |-> c]
    ELSE [idx |-> (c + 2) % n, counter |-> c + 2]

roundRobin_Always(c, n) ==
    IF n <= 1 THEN [idx |-> 0, counter |-> c + 1]
    ELSE [idx |-> (c + 1) % n, counter |-> c + 1]

roundRobin(c, n) ==
    IF n <= 1 THEN [idx |-> 0, counter |-> c]
    ELSE [idx |-> (c + 1) % n, counter |-> c + 1]

\* A preview that reports the current index instead of the next one.
predict_Current(c, n) == IF n <= 1 THEN 0 ELSE c % n

\* RoundRobinLoadBalancer.predict works on a copy of the counter.
predict(c, n) == IF n <= 1 THEN 0 ELSE (c + 1) % n

\* LoadBalancer.Resolve over a list of n elements, as the set of outcomes:
\* the index chosen, the counter afterwards and whether indexing the list
\* with it panics.  The random balancer draws rand.Intn(n), which panics
\* for n = 0, pushes the draw to its one-slot channel and takes it back.
Resolve(policy, c, n) ==
    IF policy = RoundRobinLB
    THEN {[idx |-> roundRobin(c, n).idx, counter |-> roundRobin(c, n).counter,
           panicked |-> roundRobin(c, n).idx >= n]}
    ELSE IF n = 0
         THEN {[idx |-> 0, counter |-> c, panicked |-> TRUE]}
         ELSE {[idx |-> i, counter |-> c, panicked |-> FALSE] : i \in 0..(n - 1)}

\* ------------------------------------------------------- resolver routing
\* sqlDB.ReadWrite: the list it resolves over.
ReadWrite == primaries

\* sqlDB.ReadOnly: the list it resolves over, the primaries when
\* totalConnection equals their number and the replicas otherwise.
ReadOnly_Primaries == primaries

ReadOnly ==
    IF totalConnection = Len(primaries) THEN primaries ELSE replicas

Panic(name) == [NoOp EXCEPT !.op = name, !.panicked = TRUE]

\* One driver call on handle h answering e, returned to the caller as is.
OneCall(name, h, e) ==
    [NoOp EXCEPT !.op = name, !.calls = <<h>>, !.outs = <<e>>, !.err = e]

\* A resolver-level operation that tries the next handle after a failure.
Dispatch_Retry(name, list, r, e) ==
    IF r.panicked THEN Panic(name)
    ELSE IF e = "nil" THEN OneCall(name, list[r.idx + 1], e)
    ELSE [NoOp EXCEPT !.op = name,
                      !.calls = <<list[r.idx + 1], list[((r.idx + 1) % Len(list)) + 1]>>,
                      !.outs = <<e, "nil">>, !.err = "nil"]

\* A resolver-level operation: the handle db.ReadWrite() or db.ReadOnly()
\* returned gets the one driver call, whose answer is the caller's.
Dispatch(name, list, r, e) ==
    IF r.panicked THEN Panic(name) ELSE OneCall(name, list[r.idx + 1], e)

WriteOps == {"Exec", "ExecContext"}
BeginOps == {"Begin", "BeginTx"}
ReadOps == {"Query", "QueryContext", "QueryRow", "QueryRowContext"}

\* sqlDB.Exec / ExecContext: db.ReadWrite().Exec(query, args...)
Exec ==
    /\ built
    /\ counter < MaxCounter
    /\ \E name \in WriteOps, e \in CallErrs :
       \E r \in Resolve(lbPolicy, counter, Len(ReadWrite)) :
        /\ counter' = r.counter
        /\ last' = [Dispatch(name, ReadWrite, r, e) EXCEPT
                        !.predicted = predict(counter, Len(primaries))]
    /\ UNCHANGED <<config, harness, stmtCounter, txs, stmts, conn>>

\* sqlDB.Query / QueryContext / QueryRow / QueryRowContext:
\* db.ReadOnly().Query(query, args...); the query text is not looked at.
Query ==
    /\ built
    /\ counter < MaxCounter
    /\ \E name \in ReadOps, q \in QueryIds, e \in CallErrs :
       \E r \in Resolve(lbPolicy, counter, Len(ReadOnly)) :
        /\ counter' = r.counter
        /\ last' = [Dispatch(name, ReadOnly, r, e) EXCEPT
                        !.q = q, !.predicted = predict(counter, Len(primaries))]
    /\ UNCHANGED <<config, harness, stmtCounter, txs, stmts, conn>>

\* ------------------------------------------------------------ transactions
\* The tx wrapper over a driver transaction begun on handle h: sourceDB is
\* the handle the wrapper remembers, tx the handle the driver transaction
\* runs on, begun the handle the begin call was made on.
NewTx(h) == [sourceDB |-> h, tx |-> h, begun |-> h, open |-> TRUE]

\* The Transaction the resolver's Begin returns captures the primary that
\* was chosen: the driver transaction begun on h, wrapped with sourceDB h.
BeginWrapper(h) == NewTx(h)

\* sqlDB.Begin / BeginTx: db.ReadWrite().Begin()
Begin ==
    /\ built
    /\ counter < MaxCounter
    /\ Len(txs) < MaxTxs
    /\ \E name \in BeginOps, e \in CallErrs :
       \E r \in Resolve(lbPolicy, counter, Len(ReadWrite)) :
        /\ counter' = r.counter
        /\ IF r.panicked \/ Dispatch(name, ReadWrite, r, e).err # "nil"
           THEN /\ txs' = txs
                /\ last' = [Dispatch(name, ReadWrite, r, e) EXCEPT
                                !.predicted = predict(counter, Len(primaries))]
           ELSE /\ txs' = Append(txs, BeginWrapper(ReadWrite[r.idx + 1]))
                /\ last' = [Dispatch(name, ReadWrite, r, e) EXCEPT
                                !.predicted = predict(counter, Len(primaries)),
                                !.tx = Len(txs) + 1]
    /\ UNCHANGED <<config, harness, stmtCounter, stmts, conn>>

\* The handle a call on the wrapper's t.tx reaches.
TxHandle_Resolve(t) ==
    IF Len(primaries) = 0 THEN t.tx
    ELSE primaries[predict(counter, Len(primaries)) + 1]

TxHandle(t) == t.tx

\* tx.Exec, tx.Query and tx.QueryRow call their Context variants with the
\* background context.
TxRunOps == {"tx.ExecContext", "tx.QueryContext", "tx.QueryRowContext"}
TxEndOps == {"tx.Commit", "tx.Rollback"}

\* tx.ExecContext / QueryContext / QueryRowContext:
\* t.tx.ExecContext(ctx, query, args...) and the like.
TxRun ==
    /\ \E i \in 1..Len(txs), name \in TxRunOps, e \in CallErrs :
        /\ txs[i].open
        /\ last' = [OneCall(name, TxHandle(txs[i]), e) EXCEPT !.tx = i]
    /\ UNCHANGED <<config, harness, counter, stmtCounter, txs, stmts, conn>>

\* tx.Commit / tx.Rollback: t.tx.Commit(), t.tx.Rollback()
TxEnd ==
    /\ \E i \in 1..Len(txs), name \in TxEndOps, e \in CallErrs :
        /\ txs[i].open
        /\ last' = [OneCall(name, TxHandle(txs[i]), e) EXCEPT !.tx = i]
        /\ txs' = [txs EXCEPT ![i].open = FALSE]
    /\ UNCHANGED <<config, harness, counter, stmtCounter, stmts, conn>>

\* ----------------------------------------------------- fan-out (atomic)
\* doParallely(n, fn): fn runs once for every index 0..n-1; the result is
\* nil when none failed and otherwise the composite of the failures.  F is
\* the set of indices on which fn fails.
doParallely(n, F) ==
    [ran |-> 0..(n - 1), errs |-> F \cap (0..(n - 1)),
     err |-> IF F \cap (0..(n - 1)) = {} THEN "nil" ELSE "multiErr"]

\* The handle worker i of a resolver fan-out works on: primaries first.
HandleAt(i) ==
    IF i < Len(primaries) THEN primaries[i + 1] ELSE replicas[i - Len(primaries) + 1]

\* ----------------------------------------------------- aggregate statement
\* The stmt struct.  shared: loadBalancer is the resolver's stmtLoadBalancer
\* (otherwise a fresh round-robin balancer of its own, own counter ownCounter);
\* origin and pin (the handle a single-handle statement was made for) are
\* bookkeeping.
AggStmt(ps, rs, wf, m, sh, org, pin) ==
    [primaryStmts |-> ps, replicaStmts |-> rs, writeFlag |-> wf, dbStmt |-> m,
     shared |-> sh, ownCounter |-> 0, origin |-> org, pin |-> pin]

NoMap == [h \in {} |-> NilStmt]

\* sqlDB.Prepare / PrepareContext: worker i prepares on handle i and stores
\* the statement in its slot; slots no worker ran for stay nil.  The stmt
\* literal sets no dbStmt and no writeFlag.
PreparedOn(list, off, fan) ==
    [k \in 1..Len(list) |->
        IF (off + k - 1) \in fan.ran /\ (off + k - 1) \notin fan.errs
        THEN DriverStmt(list[k]) ELSE NilStmt]

PrepareOps == {"Prepare", "PrepareContext"}

\* The sets of workers whose call fails, for a fan-out over n handles.
Failures(n) == {F \in SUBSET (0..(n - 1)) : Cardinality(F) <= MaxFailures}

Prepare ==
    /\ built
    /\ Len(stmts) < MaxStmts
    /\ \E name \in PrepareOps, F \in Failures(totalConnection) :
        LET fan == doParallely(totalConnection, F)
            ran == SeqFromTo(0, totalConnection - 1)
        IN /\ last' = [NoOp EXCEPT
                          !.op = name,
                          !.calls = [k \in 1..Len(ran) |-> HandleAt(ran[k])],
                          !.outs = [k \in 1..Len(ran) |->
                                      IF ran[k] \in F THEN "dataErr" ELSE "nil"],
                          !.err = fan.err,
                          !.errs = fan.errs,
                          !.st = IF fan.err = "nil" THEN Len(stmts) + 1 ELSE 0]
           /\ stmts' = IF fan.err # "nil" THEN stmts
                       ELSE Append(stmts,
                              AggStmt(PreparedOn(primaries, 0, fan),
                                      PreparedOn(replicas, Len(primaries), fan),
                                      FALSE, NoMap, TRUE, "db.Prepare", 0))
    /\ UNCHANGED <<config, harness, counter, stmtCounter, txs, conn>>

\* The list a name stands for.
List(s, which) == IF which = "primaryStmts" THEN s.primaryStmts ELSE s.replicaStmts

\* stmt.ROStmt: the list it resolves over.
ROStmt(s) ==
    IF Len(s.replicaStmts) + Len(s.primaryStmts) = Len(s.primaryStmts)
    THEN "primaryStmts" ELSE "replicaStmts"

\* stmt.RWStmt: the list it resolves over.
RWStmt_RO(s) == ROStmt(s)

RWStmt(s) == "primaryStmts"

\* s.loadBalancer.Resolve over n statements.
StmtResolve(s, c, n) ==
    IF s.shared THEN Resolve(lbPolicy, c, n)
    ELSE {[r EXCEPT !.counter = c] : r \in Resolve(RoundRobinLB, s.ownCounter, n)}

\* isDBConnectionError: a net.Error or an *net.OpError.
isDBConnectionError_OpOnly(err) == err = "opErr"

isDBConnectionError(err) == err \in {"netErr", "opErr"}

\* A call on the underlying statement u answering e: a nil statement panics,
\* a statement carrying the driver's sticky error returns it and reaches no
\* handle.
RunStmt(u, e) ==
    [panicked |-> u = NilStmt,
     calls |-> IF u = NilStmt \/ u.bad THEN <<>> ELSE <<u.db>>,
     outs |-> IF u = NilStmt \/ u.bad THEN <<>> ELSE <<e>>,
     err |-> IF u = NilStmt THEN "nil" ELSE IF u.bad THEN "stmtErr" ELSE e]

\* stmt.Exec, stmt.Query and stmt.QueryRow call their Context variants with
\* the background context.
StmtWriteOps == {"stmt.ExecContext"}
StmtReadOps == {"stmt.QueryContext", "stmt.QueryRowContext"}

\* stmt.Exec / ExecContext: s.RWStmt().ExecContext(ctx, args...)
StmtExec ==
    /\ stmtCounter < MaxCounter
    /\ \E i \in 1..Len(stmts), name \in StmtWriteOps, e \in CallErrs :
        LET s == stmts[i]
            L == List(s, RWStmt(s))
        IN \E r \in StmtResolve(s, stmtCounter, Len(L)) :
            /\ stmtCounter' = r.counter
            /\ last' = IF r.panicked THEN [Panic(name) EXCEPT !.st = i]
                       ELSE [NoOp EXCEPT
                               !.op = name, !.st = i, !.via = <<RWStmt(s)>>,
                               !.panicked = RunStmt(L[r.idx + 1], e).panicked,
                               !.calls = RunStmt(L[r.idx + 1], e).calls,
                               !.outs = RunStmt(L[r.idx + 1], e).outs,
                               !.err = RunStmt(L[r.idx + 1], e).err]
    /\ UNCHANGED <<config, harness, counter, txs, stmts, conn>>

\* The list the first dispatch of a statement query resolves over.
FirstStmt(s) == IF s.writeFlag THEN RWStmt(s) ELSE ROStmt(s)

\* Whether a statement query whose first call answered err dispatches again.
Fallback(s, err) == isDBConnectionError(err) /\ ~s.writeFlag

\* stmt.Query / QueryContext / QueryRow / QueryRowContext
StmtQuery ==
    /\ stmtCounter < MaxCounter
    /\ \E i \in 1..Len(stmts), name \in StmtReadOps, e1 \in Errs :
        LET s == stmts[i]
            L1 == List(s, FirstStmt(s))
            L2 == List(s, RWStmt(s))
        IN \E r1 \in StmtResolve(s, stmtCounter, Len(L1)) :
            IF r1.panicked
            THEN /\ stmtCounter' = r1.counter
                 /\ last' = [Panic(name) EXCEPT !.st = i]
            ELSE LET a == RunStmt(L1[r1.idx + 1], e1)
                 IN IF a.panicked \/ ~Fallback(s, a.err)
                    THEN /\ stmtCounter' = r1.counter
                         /\ last' = [NoOp EXCEPT
                                       !.op = name, !.st = i, !.via = <<FirstStmt(s)>>,
                                       !.panicked = a.panicked, !.calls = a.calls,
                                       !.outs = a.outs, !.err = a.err]
                    ELSE \E e2 \in Errs : \E r2 \in StmtResolve(s, r1.counter, Len(L2)) :
                         /\ stmtCounter' = r2.counter
                         /\ last' =
                              IF r2.panicked
                              THEN [NoOp EXCEPT
                                      !.op = name, !.st = i, !.via = <<FirstStmt(s)>>,
                                      !.panicked = TRUE, !.calls = a.calls, !.outs = a.outs]
                              ELSE LET b == RunStmt(L2[r2.idx + 1], e2)
                                   IN [NoOp EXCEPT
                                         !.op = name, !.st = i,
                                         !.via = <<FirstStmt(s), RWStmt(s)>>,
                                         !.panicked = b.panicked,
                                         !.calls = a.calls \o b.calls,
                                         !.outs = a.outs \o b.outs, !.err = b.err]
    /\ UNCHANGED <<config, harness, counter, txs, stmts, conn>>

\* ------------------------------------------- statements of a transaction
\* The stmt literal of tx.PrepareContext and tx.StmtContext: one underlying
\* statement, keyed by the wrapper's sourceDB; writeFlag is not set.
TxSingleStmt(sourceDB, st, org) ==
    AggStmt(<<st>>, <<>>, FALSE, [h \in {sourceDB} |-> st], FALSE, org, sourceDB)

\* newSingleDBStmt(sourceDB, st, writeFlag)
newSingleDBStmt(sourceDB, st, writeFlag) ==
    AggStmt(<<st>>, <<>>, writeFlag, [h \in {sourceDB} |-> st], FALSE,
            "conn.Prepare", sourceDB)

\* tx.Prepare / PrepareContext: t.tx.PrepareContext(ctx, query)
TxPrepare ==
    /\ Len(stmts) < MaxStmts
    /\ \E i \in 1..Len(txs), e \in CallErrs :
        /\ txs[i].open
        /\ last' = [OneCall("tx.Prepare", TxHandle(txs[i]), e) EXCEPT
                        !.tx = i,
                        !.st = IF e = "nil" THEN Len(stmts) + 1 ELSE 0]
        /\ stmts' = IF e # "nil" THEN stmts
                    ELSE Append(stmts,
                           TxSingleStmt(txs[i].sourceDB, DriverStmt(TxHandle(txs[i])),
                                        "tx.Prepare"))
    /\ UNCHANGED <<config, harness, counter, stmtCounter, txs, conn>>

\* stmt.stmtForDB: the mapping's entry for db when there is one, and
\* otherwise whatever s.RWStmt() resolves to.
stmtForDB(s, db, r) ==
    IF db \in DOMAIN s.dbStmt
    THEN [viaMap |-> TRUE, panicked |-> FALSE, u |-> s.dbStmt[db]]
    ELSE [viaMap |-> FALSE, panicked |-> r.panicked,
          u |-> IF r.panicked THEN NilStmt ELSE List(s, RWStmt(s))[r.idx + 1]]

\* The driver's Tx.StmtContext(ctx, u) on a transaction running on handle
\* h: a statement of another database yields a statement carrying a sticky
\* error, as does a failed re-prepare; a nil u is dereferenced.
DriverTxStmt(h, u, e) ==
    IF u.db # h \/ u.bad \/ e # "nil" THEN [db |-> h, bad |-> TRUE]
    ELSE [db |-> h, bad |-> FALSE]

\* tx.Stmt / StmtContext: t.tx.StmtContext(ctx, rstmt.stmtForDB(t.sourceDB))
TxStmt ==
    /\ Len(stmts) < MaxStmts
    /\ stmtCounter < MaxCounter
    /\ \E i \in 1..Len(txs), k \in 1..Len(stmts), e \in CallErrs :
        LET t == txs[i]
            s == stmts[k]
        IN /\ t.open
           /\ \E r \in StmtResolve(s, stmtCounter, Len(List(s, RWStmt(s)))) :
               LET f == stmtForDB(s, t.sourceDB, r)
               IN /\ stmtCounter' = IF f.viaMap THEN stmtCounter ELSE r.counter
                  /\ IF f.panicked \/ f.u = NilStmt
                     THEN /\ last' = [Panic("tx.Stmt") EXCEPT !.tx = i, !.st = k]
                          /\ stmts' = stmts
                     ELSE /\ last' = [NoOp EXCEPT
                                        !.op = "tx.Stmt", !.tx = i, !.st = k,
                                        !.handed = f.u.db,
                                        !.calls = IF f.u.db = TxHandle(t) /\ ~f.u.bad
                                                  THEN <<TxHandle(t)>> ELSE <<>>,
                                        !.outs = IF f.u.db = TxHandle(t) /\ ~f.u.bad
                                                 THEN <<e>> ELSE <<>>]
                          /\ stmts' = Append(stmts,
                                        TxSingleStmt(t.sourceDB,
                                                     DriverTxStmt(TxHandle(t), f.u, e),
                                                     "tx.Stmt"))
    /\ UNCHANGED <<config, harness, counter, txs, conn>>

\* -------------------------------------------------------------- connection
\* The connection wrapper the resolver's Conn returns for a driver
\* connection taken from handle h.
NewConn(h) == [sourceDB |-> h, conn |-> h]

\* sqlDB.Conn: db.primaries[0].Conn(ctx)
Conn ==
    /\ built
    /\ conn = NoConn
    /\ \E e \in CallErrs :
        /\ last' = IF Len(primaries) = 0 THEN Panic("Conn")
                   ELSE OneCall("Conn", primaries[1], e)
        /\ conn' = IF Len(primaries) = 0 \/ e # "nil" THEN NoConn ELSE NewConn(primaries[1])
    /\ UNCHANGED <<config, harness, counter, stmtCounter, txs, stmts>>

\* conn.PrepareContext: the write flag is whether the upper-cased query
\* contains RETURNING.
ConnPrepare ==
    /\ conn # NoConn
    /\ Len(stmts) < MaxStmts
    /\ \E q \in QueryIds, e \in CallErrs :
        /\ last' = [OneCall("conn.PrepareContext", conn.conn, e) EXCEPT
                        !.q = q, !.st = IF e = "nil" THEN Len(stmts) + 1 ELSE 0]
        /\ stmts' = IF e # "nil" THEN stmts
                    ELSE Append(stmts,
                           newSingleDBStmt(conn.sourceDB, DriverStmt(conn.conn),
                                           Contains(ToUpper(Queries[q]), RETURNING)))
    /\ UNCHANGED <<config, harness, counter, stmtCounter, txs, conn>>

\* conn.BeginTx: c.conn.BeginTx(ctx, opts); the tx wrapper takes the
\* connection's sourceDB.
ConnBeginTx ==
    /\ conn # NoConn
    /\ Len(txs) < MaxTxs
    /\ \E e \in CallErrs :
        /\ last' = [OneCall("conn.BeginTx", conn.conn, e) EXCEPT
                        !.tx = IF e = "nil" THEN Len(txs) + 1 ELSE 0]
        /\ txs' = IF e # "nil" THEN txs ELSE Append(txs, [NewTx(conn.conn) EXCEPT !.sourceDB = conn.sourceDB])
    /\ UNCHANGED <<config, harness, counter, stmtCounter, stmts, conn>>

\* ---------------------------------------------------------- specifications
\* Routing of the resolver's own operations and of its transactions.
Next == Exec \/ Query \/ Begin \/ TxRun \/ TxEnd \/ Conn \/ ConnBeginTx

Spec == Init /\ [][Next]_vars

\* Aggregate statements: of the resolver, of transactions, of a connection.
NextStmt ==
    \/ Prepare \/ StmtExec \/ StmtQuery \/ Conn \/ ConnPrepare

SpecStmt == Init /\ [][NextStmt]_vars

\* A transaction, its statements and the operations that move the balancers.
NextTx ==
    \/ Exec \/ Begin \/ TxRun \/ TxEnd \/ Prepare \/ TxPrepare \/ TxStmt

\* Transactions run on primaries: resolvers with at most one replica.
InitTx == Init /\ Len(replicas) <= 1

SpecTx == InitTx /\ [][NextTx]_vars

\* The statements made for one handle: by a transaction or by a connection.
NextPin ==
    \/ Begin \/ Prepare \/ TxPrepare \/ TxStmt \/ Conn \/ ConnPrepare
    \/ ConnBeginTx

SpecPin == Init /\ [][NextPin]_vars

\* ------------------------------------------------------ resolver routing
\* C1: on a resolver with at least one primary, Exec, ExecContext, Begin
\* and BeginTx make exactly one driver call, on a member of the primaries
\* and never on a replica; what that call answered, an error included, is
\* what the caller receives, and no second call is made.
C1_WriteOneCallOnPrimary ==
    (last.op \in WriteOps \cup BeginOps /\ Len(primaries) >= 1) =>
        /\ ~last.panicked
        /\ Len(last.calls) = 1
        /\ last.calls[1] \in Range(primaries)
        /\ last.calls[1] \notin Range(replicas)
        /\ last.outs = <<last.err>>

\* A failed BeginTx on a resolver with two primaries and a replica, after
\* the balancer has moved twice.
C1_Witness ==
    /\ last.op = "BeginTx"
    /\ last.err = "opErr"
    /\ Len(last.calls) = 1
    /\ Len(primaries) >= 2
    /\ Len(replicas) >= 1
    /\ counter >= 2

\* C2: on a resolver with at least one replica, Query, QueryContext,
\* QueryRow and QueryRowContext for a query not classified as Write make
\* their driver call on a member of the replicas and never on a primary,
\* whatever preceded.
C2_ReadOnReplica ==
    (/\ last.op \in ReadOps
     /\ Len(replicas) >= 1
     /\ Check(Queries[last.q]) # QueryTypeWrite) =>
        /\ ~last.panicked
        /\ Len(last.calls) = 1
        /\ last.calls[1] \in Range(replicas)
        /\ last.calls[1] \notin Range(primaries)

\* A plain select on a resolver with a primary and two replicas, after
\* earlier operations have moved the balancer.
C2_Witness ==
    /\ last.op = "QueryRowContext"
    /\ Check(Queries[last.q]) = QueryTypeUnknown
    /\ Len(primaries) >= 1
    /\ Len(replicas) >= 2
    /\ counter >= 2
    /\ Len(last.calls) = 1
    /\ last.calls[1] \in Range(replicas)

\* C3: on a resolver with at least one primary and no replica, built by
\* any constructor, every Query, QueryContext, QueryRow and QueryRowContext
\* makes its driver call on a primary; the balancer is never asked to
\* select from the empty replica list (which would panic).
C3_ReadOnPrimaryWithoutReplicas ==
    (last.op \in ReadOps /\ Len(primaries) >= 1 /\ Len(replicas) = 0) =>
        /\ ~last.panicked
        /\ Len(last.calls) = 1
        /\ last.calls[1] \in Range(primaries)

\* C4: a Query, QueryContext, QueryRow or QueryRowContext whose text the
\* classifier reports as Write goes to a primary even when the resolver
\* has replicas: one driver call, on no replica, and under round-robin on
\* the primary that predict over the primaries answered just before.
C4_WriteQueryOnPredictedPrimary ==
    (/\ last.op \in ReadOps
     /\ Check(Queries[last.q]) = QueryTypeWrite
     /\ Len(primaries) >= 1
     /\ Len(replicas) >= 1) =>
        /\ ~last.panicked
        /\ Len(last.calls) = 1
        /\ last.calls[1] \in Range(primaries)
        /\ last.calls[1] \notin Range(replicas)
        /\ lbPolicy = RoundRobinLB => last.calls[1] = primaries[last.predicted + 1]

C9_SingleHandleStmtWritePinned ==
    \A k \in 1..Len(stmts) :
        stmts[k].origin \in {"tx.Prepare", "tx.Stmt", "conn.Prepare"} =>
            /\ Len(stmts[k].primaryStmts) = 1
            /\ Len(stmts[k].replicaStmts) = 0
            /\ DOMAIN stmts[k].dbStmt = {stmts[k].pin}
            /\ stmts[k].dbStmt[stmts[k].pin] = stmts[k].primaryStmts[1]
            /\ stmts[k].writeFlag

\* C10: after a successful Prepare or PrepareContext on a resolver with p
\* primaries and r replicas, built by any constructor, the statement holds
\* p primary-bound and r replica-bound underlying statements, the i-th
\* prepared on the i-th handle of its list, and prepare was called exactly
\* once on every handle.
C10_PrepareOnePerHandle ==
    (last.op \in PrepareOps /\ last.err = "nil" /\ Len(primaries) >= 1) =>
        /\ last.st # 0
        /\ Len(stmts[last.st].primaryStmts) = Len(primaries)
        /\ Len(stmts[last.st].replicaStmts) = Len(replicas)
        /\ \A i \in 1..Len(primaries) :
             stmts[last.st].primaryStmts[i] = DriverStmt(primaries[i])
        /\ \A j \in 1..Len(replicas) :
             stmts[last.st].replicaStmts[j] = DriverStmt(replicas[j])
        /\ \A h \in Range(primaries) \cup Range(replicas) :
             Cardinality({k \in 1..Len(last.calls) : last.calls[k] = h}) = 1

\* ------------------------------------------- the balancer, call after call
\* How many times i occurs in s.
Count(s, i) == Cardinality({k \in 1..Len(s) : s[k] = i})

\* One whole Resolve(db.primaries) on the resolver's handle balancer, the
\* calls coming one after the other.
Select ==
    /\ built
    /\ Len(primaries) >= 1
    /\ Len(picked) < MaxSelections
    /\ \E r \in Resolve(lbPolicy, counter, Len(primaries)) :
        /\ ~r.panicked
        /\ counter' = r.counter
        /\ picked' = Append(picked, r.idx)
    /\ UNCHANGED <<resolver, randInt, callers, opt, par>>

NextSelect == Select

SpecSelect == Init /\ [][NextSelect]_vars

\* C11: on a round-robin balancer whose counter starts at zero, K
\* sequential Resolve calls over the same N >= 1 handles return every
\* handle floor(K/N) or ceiling(K/N) times.
C11_RoundRobinFair ==
    (lbPolicy = RoundRobinLB /\ Len(primaries) >= 1) =>
        /\ \A k \in 1..Len(picked) : picked[k] \in 0..(Len(primaries) - 1)
        /\ \A i \in 0..(Len(primaries) - 1) :
            Count(picked, i) \in
                {Len(picked) \div Len(primaries),
                 (Len(picked) + Len(primaries) - 1) \div Len(primaries)}

\* Five calls over two handles: index 1 three times, index 0 twice.
C11_Witness ==
    /\ lbPolicy = RoundRobinLB
    /\ Len(primaries) = 2
    /\ Len(picked) = 5
    /\ Count(picked, 1) = 3
    /\ Count(picked, 0) = 2

\* ------------------------------------------ the balancer, called concurrently
\* Goroutines call Resolve on the resolver's one handle balancer, a write
\* over db.ReadWrite()'s list and a read over db.ReadOnly()'s; a goroutine's
\* pc is the statement it executes next.  kind "predict" is a direct call of
\* the random balancer's predict.
CallLen(list) == IF list = "ReadWrite" THEN Len(ReadWrite) ELSE Len(ReadOnly)

CallKinds == IF lbPolicy = RandomLB THEN {"Resolve", "predict"} ELSE {"Resolve"}

\* The first statement of a call.
Entry(kind) ==
    IF lbPolicy = RoundRobinLB THEN "roundRobin"
    ELSE IF kind = "predict" THEN "draw" ELSE "len"

\* The next goroutine calls Resolve(dbs) or predict(len(dbs)).
LBCall ==
    /\ built
    /\ \E c \in 1..MaxCallers, kind \in CallKinds, list \in {"ReadWrite", "ReadOnly"} :
        /\ callers[c].pc = "idle"
        /\ \A d \in 1..(c - 1) : callers[d].pc # "idle"
        /\ CallLen(list) >= 1
        /\ callers' = [callers EXCEPT ![c] =
                         [pc |-> Entry(kind), kind |-> kind, list |-> list,
                          n |-> CallLen(list), idx |-> 0, seen |-> 0]]
    /\ UNCHANGED <<resolver, counter, picked, randInt, opt, par>>

\* idx := lb.roundRobin(len(dbs)): the atomic add and the remainder.
LBRoundRobin ==
    /\ \E c \in 1..MaxCallers :
        /\ callers[c].pc = "roundRobin"
        /\ counter' = roundRobin(counter, callers[c].n).counter
        /\ callers' = [callers EXCEPT
                         ![c].pc = "index",
                         ![c].idx = roundRobin(counter, callers[c].n).idx,
                         ![c].seen = roundRobin(counter, callers[c].n).counter]
    /\ UNCHANGED <<resolver, picked, randInt, opt, par>>

\* if len(lb.randInt) == 0 { lb.predict(len(dbs)) }; the nil channel has
\* length zero.
LBLen ==
    /\ \E c \in 1..MaxCallers :
        /\ callers[c].pc = "len"
        /\ callers' = [callers EXCEPT
                         ![c].pc = IF Len(randInt.buf) = 0 THEN "draw" ELSE "recv"]
    /\ UNCHANGED <<resolver, counter, picked, randInt, opt, par>>

\* predict: idx := rand.Intn(max-min+1) + min
LBDraw ==
    /\ \E c \in 1..MaxCallers, i \in 0..(MaxPrimaries + MaxReplicas) :
        /\ callers[c].pc = "draw"
        /\ i < callers[c].n
        /\ callers' = [callers EXCEPT ![c].pc = "send", ![c].idx = i]
    /\ UNCHANGED <<resolver, counter, picked, randInt, opt, par>>

\* predict: lb.randInt <- idx, which waits while the one slot is taken and
\* for ever on the nil channel.
LBSend ==
    /\ randInt.made
    /\ Len(randInt.buf) = 0
    /\ \E c \in 1..MaxCallers :
        /\ callers[c].pc = "send"
        /\ randInt' = [randInt EXCEPT !.buf = <<callers[c].idx>>]
        /\ callers' = [callers EXCEPT
                         ![c].pc = IF callers[c].kind = "predict" THEN "done" ELSE "recv"]
    /\ UNCHANGED <<resolver, counter, picked, opt, par>>

\* randomInt := <-lb.randInt, which waits while the channel is empty and for
\* ever on the nil channel.
LBRecv ==
    /\ randInt.made
    /\ Len(randInt.buf) = 1
    /\ \E c \in 1..MaxCallers :
        /\ callers[c].pc = "recv"
        /\ randInt' = [randInt EXCEPT !.buf = <<>>]
        /\ callers' = [callers EXCEPT ![c].pc = "index", ![c].idx = randInt.buf[1]]
    /\ UNCHANGED <<resolver, counter, picked, opt, par>>

\* return dbs[idx]: an index out of range panics.
LBIndex ==
    /\ \E c \in 1..MaxCallers :
        /\ callers[c].pc = "index"
        /\ callers' = [callers EXCEPT
                         ![c].pc = IF callers[c].idx < callers[c].n THEN "done" ELSE "panic"]
    /\ UNCHANGED <<resolver, counter, picked, randInt, opt, par>>

\* The random balancer's channel: made by the WithLoadBalancer that calls
\* make(chan int, 1), nil after the WithLoadBalancer that does not.
InitLB ==
    /\ InitBase
    /\ built
    /\ randInt \in (IF lbPolicy = RandomLB THEN {MadeChan, NilChan} ELSE {MadeChan})

NextLB ==
    \/ LBCall \/ LBRoundRobin \/ LBLen \/ LBDraw \/ LBSend \/ LBRecv \/ LBIndex

SpecLB == InitLB /\ [][NextLB]_vars

\* A goroutine that can take a step eventually takes one.
SpecLBFair ==
    /\ SpecLB
    /\ WF_vars(LBRoundRobin) /\ WF_vars(LBLen) /\ WF_vars(LBDraw)
    /\ WF_vars(LBSend) /\ WF_vars(LBRecv) /\ WF_vars(LBIndex)

\* Concurrent calls on a round-robin balancer.
InitRR == Init /\ built /\ lbPolicy = RoundRobinLB

NextRR == LBCall \/ LBRoundRobin \/ LBIndex

SpecRR == InitRR /\ [][NextRR]_vars

\* The goroutines that are past the atomic add of a call over n >= 2.
Added == {c \in 1..MaxCallers :
            callers[c].pc \in {"index", "done", "panic"} /\ callers[c].n >= 2}

\* C12: when Resolve calls on one round-robin balancer over the same
\* N >= 2 handles run concurrently, no increment is lost: the calls that
\* have done their add saw distinct consecutive counter values 1..counter,
\* and once K calls have returned the counter is K and every handle was
\* returned floor(K/N) or ceiling(K/N) times.
C12_NoLostIncrement ==
    (/\ lbPolicy = RoundRobinLB
     /\ \A c \in 1..MaxCallers : callers[c].pc # "idle" =>
            (callers[c].list = "ReadWrite" /\ callers[c].n >= 2)) =>
        /\ {callers[c].seen : c \in Added} = 1..counter
        /\ Cardinality(Added) = counter
        /\ (\A c \in 1..MaxCallers : callers[c].pc \in {"idle", "done"}) =>
             LET K == Cardinality({c \in 1..MaxCallers : callers[c].pc = "done"})
                 N == Len(ReadWrite)
             IN /\ counter = K
                /\ \A i \in 0..(N - 1) :
                     Cardinality({c \in 1..MaxCallers :
                                    callers[c].pc = "done" /\ callers[c].idx = i})
                        \in {K \div N, (K + N - 1) \div N}

\* Three concurrent calls over two primaries have returned, the goroutine
\* that called first having done its add last.
C12_Witness ==
    /\ lbPolicy = RoundRobinLB
    /\ Len(ReadWrite) = 2
    /\ \A c \in 1..MaxCallers : callers[c].pc = "done" /\ callers[c].list = "ReadWrite"
    /\ callers[1].seen = 3
    /\ callers[3].seen = 1
    /\ counter = 3

\* C14: every Resolve call returns an element of the sequence it was given:
\* the index it uses is below that sequence's length and no call panics
\* with an index out of range, also when goroutines select concurrently over
\* sequences of different lengths through the one shared balancer.
C14_IndexInRange ==
    \A c \in 1..MaxCallers :
        /\ callers[c].pc # "panic"
        /\ callers[c].pc \in {"index", "done"} /\ callers[c].kind = "Resolve" =>
             callers[c].idx < callers[c].n

\* C15: on a random balancer configured through WithLoadBalancer(RANDOM),
\* every Resolve and every predict call eventually returns, whatever the
\* interleaving: no goroutine stays blocked for ever on a send to or a
\* receive from the draw channel.
C15_RandomCallReturns ==
    \A c \in 1..MaxCallers :
        (lbPolicy = RandomLB /\ callers[c].pc # "idle")
            ~> (callers[c].pc \in {"done", "panic"})

\* C13: on a round-robin resolver the j-th selection over N >= 2 handles
\* returns the handle at index j mod N, the first one index 1, and a
\* selection over a single handle returns that handle and consumes no
\* counter value: after every write, begin or read the one driver call is on
\* the handle at index counter mod N of the list selected over (the replicas
\* for a read when there are any, the primaries otherwise), counter being
\* the number of selections over two or more handles made so far.
C13_RoundRobinSequence ==
    (/\ lbPolicy = RoundRobinLB
     /\ Len(primaries) >= 1
     /\ last.op \in WriteOps \cup BeginOps \cup ReadOps) =>
        LET L == IF last.op \in ReadOps /\ Len(replicas) > 0
                 THEN replicas ELSE primaries
            N == Len(L)
        IN /\ ~last.panicked
           /\ last.calls = <<L[IF N >= 2 THEN (counter % N) + 1 ELSE 1]>>

\* ------------------------------------------------------ the option chain
\* The policy names an option can be given: the two supported ones and one
\* that is not.
PolicyNames == {RoundRobinLB, RandomLB, "NON_EXIST"}

\* WithLoadBalancer(lb) applied to the Option o: a switch over the two
\* supported names with no default case; the random balancer is a struct
\* literal that names no channel.
WithLoadBalancer(o, lb) ==
    IF lb = RoundRobinLB
    THEN [o EXCEPT !.DBLB = RoundRobinLB, !.applied = lb]
    ELSE IF lb = RandomLB
         THEN [o EXCEPT !.DBLB = RandomLB, !.chan = NilChan, !.applied = lb]
         ELSE [o EXCEPT !.applied = lb]

\* The other WithLoadBalancer the repository holds: the random balancer
\* gets a made one-slot channel and the default case panics.
WithLoadBalancer_Default(o, lb) ==
    IF lb = RoundRobinLB
    THEN [o EXCEPT !.DBLB = RoundRobinLB, !.applied = lb]
    ELSE IF lb = RandomLB
         THEN [o EXCEPT !.DBLB = RandomLB, !.chan = MadeChan, !.applied = lb]
         ELSE [o EXCEPT !.applied = lb, !.panicked = TRUE]

\* No constructor has run yet: New is applying its options.
InitOpt ==
    /\ ctor = "none"
    /\ built = FALSE
    /\ primaries = <<>>
    /\ replicas = <<>>
    /\ totalConnection = 0
    /\ lbPolicy = RoundRobinLB
    /\ counter = 0
    /\ stmtCounter = 0
    /\ txs = <<>>
    /\ stmts = <<>>
    /\ conn = NoConn
    /\ last = NoOp
    /\ picked = <<>>
    /\ randInt = MadeChan
    /\ callers = [c \in 1..MaxCallers |-> IdleCaller]
    /\ opt = defaultOption
    /\ par = NoPar

\* WithPrimaryDBs(primaryDBs...) applied by New.
OptPrimaryDBs ==
    /\ ctor = "none"
    /\ ~opt.panicked
    /\ \E np \in 0..MaxPrimaries :
        opt' = [opt EXCEPT !.PrimaryDBs = SeqFromTo(1, np)]
    /\ UNCHANGED <<resolver, counter, picked, randInt, callers, par>>

\* WithReplicaDBs(replicaDBs...) applied by New.
OptReplicaDBs ==
    /\ ctor = "none"
    /\ ~opt.panicked
    /\ \E nr \in 0..MaxReplicas :
        opt' = [opt EXCEPT !.ReplicaDBs =
                    SeqFromTo(MaxPrimaries + 1, MaxPrimaries + nr)]
    /\ UNCHANGED <<resolver, counter, picked, randInt, callers, par>>

\* WithLoadBalancer(lb) applied by New, in either of its two versions.
OptLoadBalancer ==
    /\ ctor = "none"
    /\ ~opt.panicked
    /\ \E lb \in PolicyNames :
        opt' \in {WithLoadBalancer(opt, lb), WithLoadBalancer_Default(opt, lb)}
    /\ UNCHANGED <<resolver, counter, picked, randInt, callers, par>>

\* New after its options: panics without primaries and builds the sqlDB
\* from the Option otherwise.
NewResolver ==
    /\ ctor = "none"
    /\ ~opt.panicked
    /\ LET db == New(opt.PrimaryDBs, opt.ReplicaDBs, opt.DBLB)
       IN /\ ctor' = db.ctor
          /\ built' = db.built
          /\ primaries' = db.primaries
          /\ replicas' = db.replicas
          /\ totalConnection' = db.totalConnection
          /\ lbPolicy' = db.lbPolicy
    /\ randInt' = opt.chan
    /\ UNCHANGED <<counter, stmtCounter, txs, stmts, conn, last, picked,
                   callers, opt, par>>

NextOpt == OptPrimaryDBs \/ OptReplicaDBs \/ OptLoadBalancer \/ NewResolver

SpecOpt == InitOpt /\ [][NextOpt]_vars

\* C16: WithLoadBalancer given a policy name other than ROUND_ROBIN or
\* RANDOM is rejected when the option is applied: applying it panics, and
\* the Option is never left with the balancer it had before.
C16_UnknownPolicyPanics ==
    opt.applied \notin {"", RoundRobinLB, RandomLB} => opt.panicked

\* C17: every constructor rejects a configuration without primaries, also
\* one with no primary and at least one replica: a constructed resolver has
\* a non-empty primaries list in every reachable state, and a write or a
\* begin never selects from an empty list.
C17_PrimariesNonEmpty ==
    built =>
        /\ Len(primaries) >= 1
        /\ last.op \in WriteOps \cup BeginOps => ~last.panicked

\* ------------------------------------------------- fan-out, step by step
\* What fn(i) returns: 0 stands for nil, i + 1 for the error of index i.
fnErr(i, F) == IF i \in F THEN i + 1 ELSE 0

\* The body of the caller's loop over the channel: non-nil errors are kept.
Collect_First(arrErrs, err) ==
    IF err # 0 /\ Len(arrErrs) = 0 THEN <<err>> ELSE arrErrs

Collect(arrErrs, err) ==
    IF err # 0 THEN Append(arrErrs, err) ELSE arrErrs

\* multierr.Combine: nil without errors, the composite of them otherwise
\* (a single error is its own only component).
Combine(arrErrs) == [isNil |-> Len(arrErrs) = 0, errs |-> arrErrs]

\* make(chan error, n): the capacity of the result channel.
Capacity_One(n) == 1

Capacity(n) == n

\* doParallely(n, fn) is called: the channel of capacity n is made,
\* wg.Add(n), and the n workers and the closing goroutine are started.
ParStart ==
    /\ par.phase = "idle"
    /\ \E n \in 0..MaxWorkers :
       \E F \in SUBSET (0..(n - 1)) :
        par' = [NoPar EXCEPT !.phase = "running", !.n = n, !.fails = F,
                             !.cap = Capacity(n),
                             !.pc = [i \in 1..n |-> "fn"],
                             !.calls = [i \in 1..n |-> 0],
                             !.err = [i \in 1..n |-> 0]]
    /\ UNCHANGED <<resolver, counter, picked, randInt, callers, opt>>

\* Worker i runs fn(i).
ParFn ==
    /\ par.phase = "running"
    /\ \E i \in 1..par.n :
        /\ par.pc[i] = "fn"
        /\ par' = [par EXCEPT !.pc[i] = "send",
                              !.calls[i] = par.calls[i] + 1,
                              !.err[i] = fnErr(i - 1, par.fails)]
    /\ UNCHANGED <<resolver, counter, picked, randInt, callers, opt>>

\* Worker i sends its result: errors <- err, blocking while the buffer is
\* full.
ParSend ==
    /\ par.phase = "running"
    /\ \E i \in 1..par.n :
        /\ par.pc[i] = "send"
        /\ Len(par.errors) < par.cap
        /\ par' = [par EXCEPT !.pc[i] = "done",
                              !.errors = Append(par.errors, par.err[i])]
    /\ UNCHANGED <<resolver, counter, picked, randInt, callers, opt>>

\* Worker i calls wg.Done() and ends.
ParDone ==
    /\ par.phase = "running"
    /\ \E i \in 1..par.n :
        /\ par.pc[i] = "done"
        /\ par' = [par EXCEPT !.pc[i] = "exit"]
    /\ UNCHANGED <<resolver, counter, picked, randInt, callers, opt>>

\* The closing goroutine: wg.Wait() returns once every worker is done, then
\* close(errors).
ParClose ==
    /\ par.phase = "running"
    /\ ~par.closed
    /\ \A i \in 1..par.n : par.pc[i] = "exit"
    /\ par' = [par EXCEPT !.closed = TRUE]
    /\ UNCHANGED <<resolver, counter, picked, randInt, callers, opt>>

\* The caller's for err := range errors receives one value.
ParRange ==
    /\ par.phase = "running"
    /\ Len(par.errors) > 0
    /\ par' = [par EXCEPT !.errors = Tail(par.errors),
                          !.arrErrs = Collect(par.arrErrs, Head(par.errors))]
    /\ UNCHANGED <<resolver, counter, picked, randInt, callers, opt>>

\* The range loop ends on the closed and drained channel and the caller
\* returns multierr.Combine(arrErrs...).
ParReturn ==
    /\ par.phase = "running"
    /\ par.closed
    /\ Len(par.errors) = 0
    /\ par' = [par EXCEPT !.phase = "returned", !.ret = Combine(par.arrErrs)]
    /\ UNCHANGED <<resolver, counter, picked, randInt, callers, opt>>

NextPar ==
    ParStart \/ ParFn \/ ParSend \/ ParDone \/ ParClose \/ ParRange \/ ParReturn

SpecPar == InitOpt /\ [][NextPar]_vars

\* C18: doParallely(N, f) returns nil exactly when all N invocations of f
\* returned nil; otherwise the composite it returns has exactly one
\* component per failing index, the error that invocation returned, in
\* whatever order the workers finished.
C18_OneComponentPerFailure ==
    par.phase = "returned" =>
        /\ par.ret.isNil <=> par.fails = {}
        /\ Len(par.ret.errs) = Cardinality(par.fails)
        /\ Range(par.ret.errs) = {fnErr(i, par.fails) : i \in par.fails}

\* Three workers, the first and the last failing, the last one's error
\* arriving first.
C18_Witness ==
    /\ par.phase = "returned"
    /\ par.n = 3
    /\ par.fails = {0, 2}
    /\ par.ret.errs = <<3, 1>>

\* ------------------------------------------------------- Ping and Close
\* A fan-out of one driver call per index over db.totalConnection, the
\* calls of the indices in F failing: what was called, what each call
\* answered and what doParallely returned.
FanOut(name, F) ==
    LET fan == doParallely(totalConnection, F)
        ran == SeqFromTo(0, totalConnection - 1)
    IN [NoOp EXCEPT
            !.op = name,
            !.calls = [k \in 1..Len(ran) |-> HandleAt(ran[k])],
            !.outs = [k \in 1..Len(ran) |->
                        IF ran[k] \in F THEN "netErr" ELSE "nil"],
            !.err = fan.err,
            !.errs = fan.errs]

PingOps == {"Ping", "PingContext"}

\* sqlDB.Ping / PingContext: doParallely over db.totalConnection, index i
\* pinging primaries[i] or replicas[i - len(primaries)].
Ping ==
    /\ built
    /\ \E name \in PingOps, F \in SUBSET (0..(totalConnection - 1)) :
        last' = FanOut(name, F)
    /\ UNCHANGED <<config, harness, counter, stmtCounter, txs, stmts, conn>>

\* sqlDB.Close: doParallely over db.totalConnection, index i closing
\* primaries[i] or replicas[i - len(primaries)].
Close ==
    /\ built
    /\ \E F \in SUBSET (0..(totalConnection - 1)) :
        last' = FanOut("Close", F)
    /\ UNCHANGED <<config, harness, counter, stmtCounter, txs, stmts, conn>>

NextFan == Ping \/ Close

SpecFan == Init /\ [][NextFan]_vars

\* C19: Ping and PingContext ping every primary and every replica of the
\* resolver exactly once, whichever constructor built it and whichever
\* pings fail: the result is nil when none failed and otherwise a composite
\* with one component per failing handle.
C19_PingEveryHandleOnce ==
    last.op \in PingOps =>
        /\ \A h \in Range(primaries) \cup Range(replicas) :
               Cardinality({k \in 1..Len(last.calls) : last.calls[k] = h}) = 1
        /\ last.err = "nil" <=> \A k \in 1..Len(last.outs) : last.outs[k] = "nil"
        /\ Cardinality(last.errs) =
               Cardinality({k \in 1..Len(last.outs) : last.outs[k] # "nil"})

\* C20: Close closes every primary and every replica exactly once, whichever
\* constructor built the resolver and even when some closes fail; it returns
\* nil exactly when all of them succeeded and otherwise an aggregate that
\* holds every failure.
C20_CloseEveryHandleOnce ==
    last.op = "Close" =>
        /\ Len(last.calls) = Len(primaries) + Len(replicas)
        /\ Range(last.calls) = Range(primaries) \cup Range(replicas)
        /\ last.err = "nil" <=> last.errs = {}
        /\ last.errs = {k - 1 : k \in {j \in 1..Len(last.outs) : last.outs[j] # "nil"}}

\* ------------------------------------------------------------ stmt.Close
\* multierr.Combine(errPrimaries, errReplicas) on the failures of the two
\* fan-outs: nested composites are flattened, every failure is kept.
CombineGroups_First(errPrimaries, errReplicas) ==
    IF errPrimaries # {} THEN errPrimaries ELSE errReplicas

CombineGroups(errPrimaries, errReplicas) == errPrimaries \cup errReplicas

\* stmt.Close: doParallely over the primary-bound statements, then
\* doParallely over the replica-bound ones, each worker closing the
\* statement of its slot; closing a nil statement dereferences it.  F1 and
\* F2 are the slots whose close fails.  calls lists the handles of the
\* statements Close was invoked on, errs the failing slots, the replica
\* slots counted after the primary ones.
StmtClose ==
    /\ \E i \in 1..Len(stmts) :
        LET s == stmts[i]
            np == Len(s.primaryStmts)
            nr == Len(s.replicaStmts)
        IN \E F1 \in SUBSET (0..(np - 1)), F2 \in SUBSET (0..(nr - 1)) :
            LET errPrimaries == doParallely(np, F1)
                errReplicas == doParallely(nr, F2)
                all == CombineGroups(errPrimaries.errs,
                                     {np + k : k \in errReplicas.errs})
            IN last' =
                IF NilStmt \in Range(s.primaryStmts) \cup Range(s.replicaStmts)
                THEN [Panic("stmt.Close") EXCEPT !.st = i]
                ELSE [NoOp EXCEPT
                        !.op = "stmt.Close", !.st = i,
                        !.via = [k \in 1..(np + nr) |->
                                    IF k <= np THEN "primaryStmts" ELSE "replicaStmts"],
                        !.calls = [k \in 1..(np + nr) |->
                                    IF k <= np THEN s.primaryStmts[k].db
                                    ELSE s.replicaStmts[k - np].db],
                        !.outs = [k \in 1..(np + nr) |->
                                    IF (k - 1) \in F1 \cup {np + j : j \in F2}
                                    THEN "dataErr" ELSE "nil"],
                        !.errs = all,
                        !.err = IF all = {} THEN "nil" ELSE "multiErr"]
    /\ UNCHANGED <<config, harness, counter, stmtCounter, txs, stmts, conn>>

\* Statements and their closing.
NextStmtClose == Prepare \/ Conn \/ ConnPrepare \/ StmtClose

SpecStmtClose == Init /\ [][NextStmtClose]_vars

Driver ==
    /\ built
    /\ counter < MaxCounter
    /\ \E r \in Resolve(lbPolicy, counter, Len(ReadWrite)) :
        /\ counter' = r.counter
        /\ last' = Dispatch("Driver", ReadWrite, r, "nil")
    /\ UNCHANGED <<config, harness, stmtCounter, txs, stmts, conn>>

\* sqlDB.Stats: db.primaries[0].Stats()
Stats ==
    /\ built
    /\ last' = IF Len(primaries) = 0 THEN Panic("Stats")
               ELSE OneCall("Stats", primaries[1], "nil")
    /\ UNCHANGED <<config, harness, counter, stmtCounter, txs, stmts, conn>>

\* The accessors among the resolver's routed operations.
NextAccessors == Exec \/ Query \/ Driver \/ Stats \/ Conn

SpecAccessors == Init /\ [][NextAccessors]_vars

\* C22: Driver, Conn and Stats act on the first primary, also on a
\* resolver with several primaries, and leave the load-balancer state as it
\* was, so that the next Exec or Query chooses the handle it would have
\* chosen without the accessor call.
C22_AccessorsOnFirstPrimary ==
    [][((Driver \/ Conn \/ Stats) /\ Len(primaries) >= 1) =>
           /\ last'.calls = <<primaries[1]>>
           /\ counter' = counter]_vars

\* ------------------------------------------------ Open, OpenMultiPrimary
\* Data source names are strings over a descriptor character and the
\* separator.
DsnChars == {"a", ";"}

DataSourceNames == UNION {[1..m -> DsnChars] : m \in 0..MaxDsnLen}

\* strings.Fields-like splitting, which drops empty fields.
RECURSIVE Split_NoEmpty(_)
Split_NoEmpty(str) ==
    IF str = <<>> THEN <<>>
    ELSE IF Head(str) = ";" THEN Split_NoEmpty(Tail(str))
    ELSE LET rest == Split_NoEmpty(Tail(str))
         IN IF Len(str) >= 2 /\ str[2] # ";"
            THEN <<<<Head(str)>> \o rest[1]>> \o Tail(rest)
            ELSE <<<<Head(str)>>>> \o rest

\* strings.Split(str, ";"): one field more than there are separators, the
\* empty string giving the one empty field.
RECURSIVE Split(_)
Split(str) ==
    IF str = <<>> THEN <<<<>>>>
    ELSE LET rest == Split(Tail(str))
         IN IF Head(str) = ";" THEN <<<<>>>> \o rest
            ELSE <<<<Head(str)>> \o rest[1]>> \o Tail(rest)

\* Worker i's sql.Open: the handle i + 1, or nil (0) when it fails.
sqlOpen(i, F) == IF i \in F THEN 0 ELSE i + 1

\* What Open and OpenMultiPrimary report: the descriptor each worker handed
\* to sql.Open, the handle it got and the error returned.
Opened(name, args, conns, F) ==
    [NoOp EXCEPT
        !.op = name, !.args = args, !.via = conns,
        !.calls = [k \in 1..Len(conns) |-> sqlOpen(k - 1, F)],
        !.outs = [k \in 1..Len(conns) |-> IF (k - 1) \in F THEN "dataErr" ELSE "nil"],
        !.errs = doParallely(Len(conns), F).errs,
        !.err = doParallely(Len(conns), F).err]

\* Open(driverName, dataSourceNames): worker 0 opens primaries[0], worker
\* i replicas[i-1]; the resolver is the caller's when err is nil.
Open ==
    /\ ctor = "none"
    /\ \E dataSourceNames \in DataSourceNames :
        LET conns == Split(dataSourceNames)
        IN IF Len(conns) = 0
           THEN /\ last' = [NoOp EXCEPT !.op = "Open", !.args = <<dataSourceNames>>,
                                        !.err = "invalid data source name"]
                /\ ctor' = "Open"
                /\ UNCHANGED <<built, primaries, replicas, totalConnection, lbPolicy>>
           ELSE \E F \in Failures(Len(conns)) :
                /\ last' = Opened("Open", <<dataSourceNames>>, conns, F)
                /\ ctor' = "Open"
                /\ built' = (F = {})
                /\ primaries' = <<sqlOpen(0, F)>>
                /\ replicas' = [k \in 1..(Len(conns) - 1) |-> sqlOpen(k, F)]
                /\ totalConnection' = Len(conns)
                /\ lbPolicy' = defaultOption.DBLB
    /\ UNCHANGED <<harness, counter, stmtCounter, txs, stmts, conn>>

\* OpenMultiPrimary(driverName, primaryDataSourceNames,
\* readOnlyDataSourceNames): every primary worker assigns primaries[0], so
\* the slot ends with the result of whichever of them wrote last and the
\* other primary slots stay nil; replica worker j assigns replicas[j].
OpenMultiPrimary ==
    /\ ctor = "none"
    /\ \E primaryDataSourceNames \in DataSourceNames,
          readOnlyDataSourceNames \in DataSourceNames :
        LET primaryConns == Split(primaryDataSourceNames)
            readOnlyConns == Split(readOnlyDataSourceNames)
            k == Len(primaryConns)
        IN IF k = 0
           THEN /\ last' = [NoOp EXCEPT
                              !.op = "OpenMultiPrimary",
                              !.args = <<primaryDataSourceNames, readOnlyDataSourceNames>>,
                              !.err = "require primary data source name"]
                /\ ctor' = "OpenMultiPrimary"
                /\ UNCHANGED <<built, primaries, replicas, totalConnection, lbPolicy>>
           ELSE \E F \in Failures(k + Len(readOnlyConns)), w \in 0..(k - 1) :
                /\ last' = Opened("OpenMultiPrimary",
                                  <<primaryDataSourceNames, readOnlyDataSourceNames>>,
                                  primaryConns \o readOnlyConns, F)
                /\ ctor' = "OpenMultiPrimary"
                /\ built' = (F = {})
                /\ primaries' = [i \in 1..k |-> IF i = 1 THEN sqlOpen(w, F) ELSE 0]
                /\ replicas' = [j \in 1..Len(readOnlyConns) |-> sqlOpen(k + j - 1, F)]
                /\ totalConnection' = k + Len(readOnlyConns)
                /\ lbPolicy' = defaultOption.DBLB
    /\ UNCHANGED <<harness, counter, stmtCounter, txs, stmts, conn>>

NextOpen == Open \/ OpenMultiPrimary

SpecOpen == InitOpt /\ [][NextOpen]_vars

\* The descriptors of a list joined with the separator.
RECURSIVE Join(_)
Join(fields) ==
    IF Len(fields) = 0 THEN <<>>
    ELSE IF Len(fields) = 1 THEN fields[1]
    ELSE fields[1] \o <<";">> \o Join(Tail(fields))

\* The number of descriptors of a separated list.
Descriptors(str) == Cardinality({i \in 1..Len(str) : str[i] = ";"}) + 1

\* C23: after OpenMultiPrimary succeeds with k primary and m replica
\* descriptors the resolver has k primaries and m replicas, slot i of the
\* primaries holding the handle opened from the i-th primary descriptor and
\* slot j of the replicas the handle opened from the j-th replica
\* descriptor, no slot left unset, whatever order the workers run in.
C23_OpenMultiPrimarySlots ==
    (last.op = "OpenMultiPrimary" /\ last.err = "nil") =>
        LET k == Descriptors(last.args[1])
            m == Descriptors(last.args[2])
        IN /\ Len(primaries) = k
           /\ Len(replicas) = m
           /\ \A i \in 1..k : primaries[i] # 0 /\ primaries[i] = last.calls[i]
           /\ \A j \in 1..m : replicas[j] # 0 /\ replicas[j] = last.calls[k + j]

\* C24: Open with k >= 1 separated descriptors yields exactly one primary,
\* opened from the first descriptor, and k - 1 replicas, replica i - 1
\* opened from descriptor i, the descriptors being the fields whose joining
\* gives the list back; with k = 1 there is no replica and reads go to the
\* primary.
C24_OpenFirstIsPrimary ==
    (last.op = "Open" /\ last.err = "nil") =>
        LET k == Descriptors(last.args[1])
        IN /\ Len(last.via) = k
           /\ Join(last.via) = last.args[1]
           /\ \A i \in 1..k : ";" \notin Range(last.via[i])
           /\ Len(primaries) = 1
           /\ primaries[1] = last.calls[1] /\ primaries[1] # 0
           /\ Len(replicas) = k - 1
           /\ \A i \in 2..k : replicas[i - 1] = last.calls[i] /\ replicas[i - 1] # 0
           /\ \A i, j \in 1..k : i # j => last.calls[i] # last.calls[j]
           /\ k = 1 => ReadOnly = primaries

\* Open of a list with an empty descriptor in the middle has succeeded.
C24_Witness ==
    /\ last.op = "Open"
    /\ last.err = "nil"
    /\ last.args[1] = <<"a", ";", ";">>
    /\ Len(replicas) = 2

\* C25: Open given the empty string and OpenMultiPrimary given an empty
\* primary list fail with an error and open no handle: no resolver whose
\* only primary comes from an empty descriptor is returned.
C25_EmptyListRejected ==
    (last.op \in {"Open", "OpenMultiPrimary"} /\ last.args[1] = <<>>) =>
        /\ last.err # "nil"
        /\ last.calls = <<>>
        /\ ~built

\* ------------------------------------------------ the default classifier
\* The texts the classifier is given: the word in every mix of upper and
\* lower case, the word with one letter missing or replaced, and a plain
\* select, each between paddings of up to MaxPad characters.
returning == <<"r", "e", "t", "u", "r", "n", "i", "n", "g">>

Words ==
    {[j \in 1..Len(RETURNING) |-> IF b[j] THEN RETURNING[j] ELSE returning[j]] :
        b \in [1..Len(RETURNING) -> BOOLEAN]}
    \cup {SubSeq(w, 1, j - 1) \o SubSeq(w, j + 1, Len(w)) :
            w \in {RETURNING, returning}, j \in 1..Len(RETURNING)}
    \cup {[w EXCEPT ![j] = "x"] : w \in {RETURNING, returning}, j \in 1..Len(RETURNING)}
    \cup {Queries[1]}

Pads == UNION {[1..m -> {"x", " "}] : m \in 0..MaxPad}

QueryTexts == {pre \o w \o suf : pre \in Pads, w \in Words, suf \in Pads}

\* DefaultQueryTypeChecker.Check is called with a query text, once.
CheckQuery ==
    /\ last.op = "none"
    /\ \E query \in QueryTexts :
        last' = [NoOp EXCEPT !.op = "Check", !.args = <<query>>,
                             !.outs = <<Check(query)>>]
    /\ UNCHANGED <<config, harness, counter, stmtCounter, txs, stmts, conn>>

NextCheck == CheckQuery

SpecCheck == InitOpt /\ [][NextCheck]_vars

\* Whether text holds the word at some position, letters compared without
\* regard to case.
HoldsWord(text) ==
    \E k \in 0..(Len(text) - Len(RETURNING)) :
        \A j \in 1..Len(RETURNING) : text[k + j] \in {RETURNING[j], returning[j]}

\* C26: the default classifier returns Write exactly when the query
\* contains RETURNING compared case-insensitively, and Unknown for every
\* other query, a plain select included; it never returns Read.
C26_WriteIffReturning ==
    last.op = "Check" =>
        /\ last.outs[1] \in {QueryTypeWrite, QueryTypeUnknown}
        /\ last.outs[1] # QueryTypeRead
        /\ last.outs[1] = QueryTypeWrite <=> HoldsWord(last.args[1])

\* A padded query holding the word in mixed case was classified as a write.
C26_Witness ==
    /\ last.op = "Check"
    /\ last.args[1] = <<" ", "R", "e", "T", "u", "R", "n", "I", "n", "G", "x">>
    /\ last.outs = <<QueryTypeWrite>>

\* Writes and reads alone.
NextRoute == Exec \/ Query

SpecRoute == Init /\ [][NextRoute]_vars

PredictRR ==
    /\ built
    /\ lbPolicy = RoundRobinLB
    /\ \E n \in 1..MaxPrimaries :
        last' = [NoOp EXCEPT !.op = "predict", !.predicted = predict(counter, n),
                             !.args = <<n, Len(picked)>>]
    /\ UNCHANGED <<config, harness, counter, stmtCounter, txs, stmts, conn>>

NextPredictRR == PredictRR \/ Select

SpecPredictRR == InitRR /\ [][NextPredictRR]_vars

NeedsDraw_Always(ch) == TRUE

NeedsDraw(ch) == Len(ch.buf) = 0

\* resolver.loadBalancer.predict(n) on the random balancer, run to its end
\* with no other call beside it: rand.Intn(n) is sent to the channel, which
\* has to be made and empty for the send to return.
PredictRandom ==
    /\ built
    /\ lbPolicy = RandomLB
    /\ randInt.made
    /\ Len(randInt.buf) = 0
    /\ \E n \in 1..MaxPrimaries, i \in 0..(MaxPrimaries - 1) :
        /\ i < n
        /\ randInt' = [randInt EXCEPT !.buf = <<i>>]
        /\ last' = [NoOp EXCEPT !.op = "predict", !.predicted = i, !.args = <<n, i>>]
    /\ UNCHANGED <<config, counter, stmtCounter, txs, stmts, conn, picked,
                   callers, opt, par>>

\* db.ReadWrite() on the random balancer, run to its end with no other
\* call beside it: Resolve draws and sends when the channel is empty,
\* receives, and indexes the primaries with what it received.  via tells
\* whether it drew, args what the predict just before it had said.
ResolveRandom ==
    /\ built
    /\ lbPolicy = RandomLB
    /\ randInt.made
    /\ Len(primaries) >= 1
    /\ Len(picked) < MaxSelections
    /\ \E i \in 0..(Len(primaries) - 1) :
        LET drew == NeedsDraw(randInt)
            randomInt == IF drew THEN i ELSE randInt.buf[1]
            before == IF last.op = "predict" THEN last.args ELSE <<>>
        IN /\ randInt' = [randInt EXCEPT !.buf = <<>>]
           /\ IF randomInt >= Len(primaries)
              THEN /\ last' = [Panic("Resolve") EXCEPT !.args = before]
                   /\ picked' = picked
              ELSE /\ last' = [NoOp EXCEPT
                                 !.op = "Resolve", !.args = before,
                                 !.via = IF drew THEN <<"draw">> ELSE <<>>,
                                 !.calls = <<primaries[randomInt + 1]>>]
                   /\ picked' = Append(picked, randomInt)
    /\ UNCHANGED <<config, counter, stmtCounter, txs, stmts, conn, callers,
                   opt, par>>

\* A resolver with the random balancer, its channel made or nil.
InitRandom ==
    /\ InitBase
    /\ built
    /\ lbPolicy = RandomLB
    /\ randInt \in {MadeChan, NilChan}

NextRandom == PredictRandom \/ ResolveRandom

SpecRandom == InitRandom /\ [][NextRandom]_vars

\* C29: on a random balancer predict(n) followed, with no other call on
\* the balancer in between, by Resolve over an n-element sequence makes
\* Resolve return the element at the predicted index without a fresh draw,
\* and the operation run on the result reaches the predicted handle.
C29_ResolveUsesPrediction ==
    (/\ last.op = "Resolve"
     /\ last.args # <<>>
     /\ last.args[1] = Len(primaries)) =>
        /\ ~last.panicked
        /\ last.via = <<>>
        /\ picked[Len(picked)] = last.args[2]
        /\ last.calls = <<primaries[last.args[2] + 1]>>

\* After a selection of index 0, a predict over the two primaries said 1
\* and the Resolve after it returned the second primary.
C29_Witness ==
    /\ last.op = "Resolve"
    /\ Len(primaries) = 2
    /\ last.args = <<2, 1>>
    /\ picked = <<0, 1>>
    /\ last.calls = <<primaries[2]>>

\* Every goroutine of a fan-out that can take a step eventually takes one;
\* for the workers' first step this is the proviso that fn returns.
SpecParFair ==
    /\ SpecPar
    /\ WF_vars(ParFn) /\ WF_vars(ParSend) /\ WF_vars(ParDone)
    /\ WF_vars(ParClose) /\ WF_vars(ParRange) /\ WF_vars(ParReturn)

\* C30: doParallely(N, f) terminates for every N >= 0 when every
\* invocation of f returns.  For N = 0 it returns success and f is never
\* invoked; for N > 0 it returns only after f has run exactly once for each
\* index and every invocation has completed; no worker ever finds the
\* channel full when it reports its result; after the return no worker and
\* no closing goroutine is left running.
C30_FanOutTerminates ==
    /\ [](par.phase = "returned" =>
            /\ par.n = 0 => par.ret.isNil
            /\ \A i \in 1..par.n : par.calls[i] = 1 /\ par.pc[i] = "exit"
            /\ par.closed)
    /\ [](par.phase = "running" =>
            /\ \A i \in 1..par.n : par.calls[i] <= 1
            /\ \A i \in 1..par.n : par.pc[i] = "send" => Len(par.errors) < par.cap)
    /\ (par.phase = "running" ~> par.phase = "returned")

\* A fan-out over three workers of which the second failed has returned.
C30_Witness ==
    /\ par.phase = "returned"
    /\ par.n = 3
    /\ par.fails = {1}
    /\ par.calls = <<1, 1, 1>>
    /\ par.closed

\* ------------------------------------------- Prepare: all or nothing
\* C31: when the prepare fails on at least one handle, Prepare and
\* PrepareContext return no statement and a composite error with one entry
\* per failed handle; a statement is returned only when the prepare was
\* called on every primary and every replica and succeeded on each.
C31_PrepareAllOrNothing ==
    last.op \in PrepareOps =>
        /\ (\E k \in 1..Len(last.outs) : last.outs[k] # "nil") =>
              /\ last.st = 0
              /\ last.err # "nil"
              /\ Cardinality(last.errs) =
                   Cardinality({k \in 1..Len(last.outs) : last.outs[k] # "nil"})
        /\ last.st # 0 =>
              \A h \in Range(primaries) \cup Range(replicas) :
                  \E k \in 1..Len(last.calls) :
                      last.calls[k] = h /\ last.outs[k] = "nil"

\* ------------------------------------------- the statement's handle map
\* C32: every aggregate statement a successful resolver Prepare or
\* PrepareContext returned maps every primary and every replica of the
\* resolver, each to the statement prepared on that very handle, and maps
\* no two handles to the same statement.
C32_PreparedMapCoversHandles ==
    \A k \in 1..Len(stmts) :
        stmts[k].origin = "db.Prepare" =>
            /\ DOMAIN stmts[k].dbStmt = Range(primaries) \cup Range(replicas)
            /\ \A h \in DOMAIN stmts[k].dbStmt :
                 stmts[k].dbStmt[h] = DriverStmt(h)
            /\ \A g, h \in DOMAIN stmts[k].dbStmt :
                 stmts[k].dbStmt[g] = stmts[k].dbStmt[h] => g = h

\* ------------------------------------------- stmtForDB on its own
\* One call s.stmtForDB(h), for a statement s the resolver, a connection or
\* a transaction made and a handle h of the resolver.  via is empty when the
\* balancer was not consulted; args holds h and the statement returned.
StmtForDB ==
    /\ stmtCounter < MaxCounter
    /\ \E k \in 1..Len(stmts), h \in Range(primaries) \cup Range(replicas) :
        LET s == stmts[k]
        IN \E r \in StmtResolve(s, stmtCounter, Len(List(s, RWStmt(s)))) :
            LET f == stmtForDB(s, h, r)
            IN /\ stmtCounter' = IF f.viaMap THEN stmtCounter ELSE r.counter
               /\ last' = [NoOp EXCEPT
                             !.op = "stmtForDB", !.st = k,
                             !.panicked = f.panicked,
                             !.via = IF f.viaMap THEN <<>> ELSE <<RWStmt(s)>>,
                             !.args = <<h, f.u>>]
    /\ UNCHANGED <<config, harness, counter, stmts, txs, conn>>

NextStmtForDB == Prepare \/ Conn \/ ConnPrepare \/ Begin \/ TxPrepare \/ StmtForDB

SpecStmtForDB == Init /\ [][NextStmtForDB]_vars

\* C33: stmtForDB(h) returns the mapping's statement for h whenever the
\* mapping has an entry for h, and does not consult the balancer then; only
\* without an entry does it return a member of the primary-bound list, the
\* one the statement's balancer chose; and for a statement whose
\* primary-bound list has at least one entry it never returns nil.
C33_StmtForDBPrefersMap ==
    (last.op = "stmtForDB" /\ ~last.panicked) =>
        LET s == stmts[last.st]
            h == last.args[1]
            u == last.args[2]
        IN /\ h \in DOMAIN s.dbStmt => (u = s.dbStmt[h] /\ last.via = <<>>)
           /\ h \notin DOMAIN s.dbStmt =>
                 /\ last.via = <<"primaryStmts">>
                 /\ u \in Range(s.primaryStmts)
           /\ Len(s.primaryStmts) >= 1 => u # NilStmt

\* ------------------------------------------- statement reads: one call
\* C34: a Query, QueryContext, QueryRow or QueryRowContext on an aggregate
\* statement whose first dispatch went to a primary-bound statement makes
\* exactly one driver call, whatever that call answers; a second call is
\* made only after a replica-bound statement failed.  Calls that end in a
\* nil dereference are left aside.
C34_PrimaryFirstSingleCall ==
    (last.op \in StmtReadOps /\ Len(last.via) >= 1 /\ ~last.panicked) =>
        /\ last.via[1] = "primaryStmts" => Len(last.calls) = 1
        /\ Len(last.calls) > 1 => last.via[1] = "replicaStmts"

\* ------------------------------------------- resolver reads: one call
\* C35: a resolver-level Query, QueryContext, QueryRow or QueryRowContext
\* makes exactly one driver call, and what that call answered is what the
\* caller receives: after a connection-class error of the chosen replica
\* the caller holds that error and no primary was called.
C35_ResolverReadSingleCall ==
    last.op \in ReadOps =>
        /\ Len(last.calls) = 1
        /\ last.outs = <<last.err>>
        /\ (last.calls[1] \in Range(replicas) /\ isDBConnectionError(last.outs[1])) =>
              /\ last.err = last.outs[1]
              /\ \A k \in 1..Len(last.calls) : last.calls[k] \notin Range(primaries)

\* ------------------------------------------- reads and writes interleaved
\* sqlDB.Exec / ExecContext as in Exec, the handle that got the driver call
\* appended to picked.
ExecTraced ==
    /\ built
    /\ counter < MaxCounter
    /\ Len(picked) < MaxSelections
    /\ \E name \in WriteOps, e \in CallErrs :
       \E r \in Resolve(lbPolicy, counter, Len(ReadWrite)) :
        /\ counter' = r.counter
        /\ last' = [Dispatch(name, ReadWrite, r, e) EXCEPT
                        !.predicted = predict(counter, Len(primaries))]
        /\ picked' = picked \o last'.calls
    /\ UNCHANGED <<config, stmtCounter, txs, stmts, conn, randInt, callers, opt, par>>

\* sqlDB.Query / QueryContext / QueryRow / QueryRowContext as in Query, the
\* handle that got the driver call appended to picked.
QueryTraced ==
    /\ built
    /\ counter < MaxCounter
    /\ Len(picked) < MaxSelections
    /\ \E name \in ReadOps, q \in QueryIds, e \in CallErrs :
       \E r \in Resolve(lbPolicy, counter, Len(ReadOnly)) :
        /\ counter' = r.counter
        /\ last' = [Dispatch(name, ReadOnly, r, e) EXCEPT
                        !.q = q, !.predicted = predict(counter, Len(primaries))]
        /\ picked' = picked \o last'.calls
    /\ UNCHANGED <<config, stmtCounter, txs, stmts, conn, randInt, callers, opt, par>>

NextTraced == ExecTraced \/ QueryTraced

SpecTraced == InitRR /\ [][NextTraced]_vars

\* The calls of picked that went to a handle of list, in order.
CallsOn(list) == SelectSeq(picked, LAMBDA h : h \in Range(list))

\* Whether every window of Len(list) successive calls on list covers list.
Rotates(list) ==
    LET c == CallsOn(list)
        n == Len(list)
    IN \A i \in 1..(Len(c) - n + 1) : {c[j] : j \in i..(i + n - 1)} = Range(list)

Sizes == (-1)..(MaxPrimaries + 1)

\* One round of TestReplicaRoundRobin's loop on the resolver's round-robin
\* balancer: index := predict(n).  args holds n, the index the previous call
\* with n >= 2 returned (-1 before the first) and the number of calls made.
TestReplicaRoundRobin ==
    /\ built
    /\ lbPolicy = RoundRobinLB
    /\ \E n \in Sizes :
        LET seen == IF last.op = "predict" THEN last.args[3] ELSE 0
            prev == IF last.op # "predict" THEN -1
                    ELSE IF last.args[1] <= 1 THEN last.args[2]
                    ELSE last.predicted
        IN /\ seen < MaxSelections
           /\ last' = [NoOp EXCEPT !.op = "predict",
                                   !.predicted = predict(counter, n),
                                   !.args = <<n, prev, seen + 1>>]
    /\ UNCHANGED <<config, harness, counter, stmtCounter, txs, stmts, conn>>

NextPredictSeq == TestReplicaRoundRobin \/ Select

SpecPredictSeq == InitRR /\ [][NextPredictSeq]_vars

\* C37: for n <= 1 the round-robin balancer's predict(n) returns 0; for
\* n >= 2 every call returns an index strictly between 0 and n that differs
\* from the index the previous call returned.
C37_PredictMovesOn ==
    last.op = "predict" =>
        IF last.args[1] <= 1
        THEN last.predicted = 0
        ELSE /\ 0 < last.predicted
             /\ last.predicted < last.args[1]
             /\ last.predicted # last.args[2]

====
